---------------------------- MODULE Spec2Model ----------------------------
(***************************************************************************)
(* Model of the Confluence connector (src/client.go, src/pages.go).        *)
(*                                                                         *)
(* Strings are sequences of one-character strings, so that stripHTML is    *)
(* computed character by character as regexp.ReplaceAllString,             *)
(* strings.ReplaceAll, strings.Fields and strings.Join compute it.         *)
(***************************************************************************)
EXTENDS Integers, Sequences, FiniteSets, TLC

\* ------------------------------------------------------------------------
\* Bounds of the model
\* ------------------------------------------------------------------------
\* pieces concatenated into one input of stripHTML
MaxPieces == 3
\* pieces concatenated into one page body given to pageToDocument
MaxBodyPieces == 2
\* pages in one response of the remote API
MaxPages == 3
\* version creation instants are 0..MaxTime
MaxTime == 2
\* invocations running concurrently
NumProcs == 2

\* ------------------------------------------------------------------------
\* Program constants
\* ------------------------------------------------------------------------
\* pages.go:40 and pages.go:126: limit used when the input limit is <= 0
ActivityDefaultLimit == 100
\* client.go:114 and client.go:180: limit used when the client is given <= 0
ClientDefaultLimit == 25
\* client.go:133: the only status that is not an API error
StatusOK == 200

VARIABLES
    htmlTagRegex,   \* pages.go:178, package-level compiled pattern
    html,           \* argument of the stripHTML call under study
    text,           \* its result
    prev,           \* the result of the stripHTML call before the last one
    strips,         \* how many times stripHTML was applied to reach text
    storage,        \* page.Body.Storage.Value given to pageToDocument
    view,           \* page.Body.View.Value given to pageToDocument
    doc,            \* the Document pageToDocument returned, NoDoc before
    \* one entry per invocation of an activity:
    call,           \* its input, NoCall before it is invoked
    pc,             \* "idle", "fetching" (httpClient.Do outstanding),
                    \* "storing" (StoreDocuments outstanding), "done"
    ctxDone,        \* the caller's ctx is cancelled or past its deadline
    cancelAt,       \* the pc at which ctx was cancelled, "none" if it was not
    req,            \* the HTTP request built by the client, NoReq if none
    fetched,        \* how the client call ended, "none" while it has not
    pages,          \* the pages decoded from the response
    batch,          \* the docs slice given to StoreDocuments
    stored,         \* how StoreDocuments ended, "none" while it has not
    result,         \* what the activity returned, NoResult before
    nFetch,         \* calls of GetSpacePages / GetPage / SearchCQL
    nHTTP,          \* calls of httpClient.Do
    nStore,         \* calls of transform.StoreDocuments
    store           \* the external document store: the batches it holds

stripVars == <<html, text, prev, strips>>
docVars == <<storage, view, doc>>
opVars == <<call, pc, ctxDone, cancelAt, req, fetched, pages, batch, stored,
            result, nFetch, nHTTP, nStore, store>>
vars == <<htmlTagRegex, stripVars, docVars, opVars>>

\* ------------------------------------------------------------------------
\* Strings
\* ------------------------------------------------------------------------
Nbsp == <<"&", "n", "b", "s", "p", ";">>
Amp  == <<"&", "a", "m", "p", ";">>
Lt   == <<"&", "l", "t", ";">>
Gt   == <<"&", "g", "t", ";">>
Quot == <<"&", "q", "u", "o", "t", ";">>

\* unicode.IsSpace, on the characters the model uses
IsSpace(c) == c \in {" ", "\t", "\n"}

HasPrefix(s, prefix) ==
    /\ Len(s) >= Len(prefix)
    /\ SubSeq(s, 1, Len(prefix)) = prefix

\* s[i..] (Go slice s[i-1:])
Drop(s, n) == SubSeq(s, n + 1, Len(s))

\* regexp.MustCompile(`<[^>]*>`): an opening bracket, any run of characters
\* other than the closing bracket, the closing bracket
CompiledTagRegex == [open |-> "<", close |-> ">"]

\* ReplaceAllString for the pattern `<[^<>]*>`, which refuses an opening
\* bracket inside a tag: the match at the head of s needs a closing bracket
\* with no bracket of either kind before it
RECURSIVE ReplaceAllStringNoNest(_, _, _)
ReplaceAllStringNoNest(re, s, repl) ==
    IF s = <<>> THEN <<>>
    ELSE IF /\ Head(s) = re.open
            /\ \E j \in 2..Len(s) :
                  /\ s[j] = re.close
                  /\ \A m \in 2..(j - 1) : s[m] \notin {re.open, re.close}
         THEN LET j == CHOOSE k \in 2..Len(s) :
                          /\ s[k] = re.close
                          /\ \A m \in 2..(k - 1) : s[m] # re.close
              IN  repl \o ReplaceAllStringNoNest(re, Drop(s, j), repl)
         ELSE <<Head(s)>> \o ReplaceAllStringNoNest(re, Tail(s), repl)

\* (*Regexp).ReplaceAllString: leftmost matches, left to right, no overlap.
\* A match at the head of s exists iff s starts with the opening bracket and
\* a closing bracket follows; [^>]* stops at the first one.
RECURSIVE ReplaceAllString(_, _, _)
ReplaceAllString(re, s, repl) ==
    IF s = <<>> THEN <<>>
    ELSE IF Head(s) = re.open /\ \E j \in 2..Len(s) : s[j] = re.close
         THEN LET j == CHOOSE k \in 2..Len(s) :
                          /\ s[k] = re.close
                          /\ \A m \in 2..(k - 1) : s[m] # re.close
              IN  repl \o ReplaceAllString(re, Drop(s, j), repl)
         ELSE <<Head(s)>> \o ReplaceAllString(re, Tail(s), repl)

\* strings.ReplaceAll(s, old, new), old non-empty: non-overlapping
\* occurrences of old, left to right, in ONE pass over s
RECURSIVE ReplaceAll(_, _, _)
ReplaceAll(s, old, new) ==
    IF s = <<>> THEN <<>>
    ELSE IF HasPrefix(s, old)
         THEN new \o ReplaceAll(Drop(s, Len(old)), old, new)
         ELSE <<Head(s)>> \o ReplaceAll(Tail(s), old, new)

\* strings.Fields: the maximal runs of non-space characters
RECURSIVE Fields(_)
Fields(s) ==
    IF s = <<>> THEN <<>>
    ELSE IF IsSpace(Head(s)) THEN Fields(Tail(s))
    ELSE LET n == IF \E k \in 1..Len(s) : IsSpace(s[k])
                  THEN (CHOOSE k \in 1..Len(s) :
                            /\ IsSpace(s[k])
                            /\ \A m \in 1..(k - 1) : ~IsSpace(s[m])) - 1
                  ELSE Len(s)
         IN  <<SubSeq(s, 1, n)>> \o Fields(Drop(s, n))

\* strings.Join(words, sep)
RECURSIVE Join(_, _)
Join(words, sep) ==
    IF words = <<>> THEN <<>>
    ELSE IF Len(words) = 1 THEN words[1]
    ELSE words[1] \o sep \o Join(Tail(words), sep)

\* pages.go:181
StripTags(s) == ReplaceAllString(htmlTagRegex, s, <<" ">>)

\* DecodeEntities without the pass of pages.go:184
DecodeEntitiesNoLt(s) ==
    LET t1 == ReplaceAll(s, Nbsp, <<" ">>)
        t2 == ReplaceAll(t1, Amp, <<"&">>)
        t4 == ReplaceAll(t2, Gt, <<">">>)
    IN  ReplaceAll(t4, Quot, <<"\"">>)

\* pages.go:182-186: five successive passes, each over the previous result
DecodeEntities(s) ==
    LET t1 == ReplaceAll(s, Nbsp, <<" ">>)
        t2 == ReplaceAll(t1, Amp, <<"&">>)
        t3 == ReplaceAll(t2, Lt, <<"<">>)
        t4 == ReplaceAll(t3, Gt, <<">">>)
    IN  ReplaceAll(t4, Quot, <<"\"">>)

\* pages.go:188-189
CollapseSpace(s) == Join(Fields(s), <<" ">>)

\* pages.go:180-190
stripHTML(s) == CollapseSpace(DecodeEntities(StripTags(s)))

\* ------------------------------------------------------------------------
\* Pages and documents
\* ------------------------------------------------------------------------
NoDoc == [ID |-> 0]

\* pageToDocument with the fallback decided on the raw storage body
pageToDocumentRawTest(page) ==
    [ID        |-> page.ID,
     Content   |-> IF page.Storage = <<>> THEN stripHTML(page.View)
                   ELSE stripHTML(page.Storage),
     Source    |-> "confluence",
     UpdatedAt |-> page.CreatedAt]

\* pages.go:151-176 (title, URL and metadata are copied fields, left out)
pageToDocument(page) ==
    LET content == stripHTML(page.Storage)
    IN  [ID        |-> page.ID,
         Content   |-> IF content = <<>> THEN stripHTML(page.View) ELSE content,
         Source    |-> "confluence",
         UpdatedAt |-> page.CreatedAt]

IdleDoc ==
    /\ storage = <<>>
    /\ view = <<>>
    /\ doc = NoDoc

IdleStrip ==
    /\ html = <<>>
    /\ text = <<>>
    /\ prev = <<>>
    /\ strips = 0

\* ------------------------------------------------------------------------
\* The three activities
\* ------------------------------------------------------------------------
Procs == 1..NumProcs
Times == 0..MaxTime

\* input.Since: <<>> is the nil pointer, <<t>> points at the instant t
Sinces == {<<>>} \cup { <<t>> : t \in Times }

NoCall == [kind |-> "none"]
NoReq == [endpoint |-> "none"]
NoResult == [returned |-> FALSE]

\* the error an activity returns: fmt.Errorf("<wrap>: %w", err), with the
\* zero output value beside it
Failure(wrap, cause) ==
    [returned |-> TRUE, ok |-> FALSE, err |-> <<wrap, cause>>,
     Ref |-> 0, Count |-> 0, Document |-> NoDoc, Found |-> FALSE]

\* pages.go:45, 92, 131
Wrap(kind) ==
    CASE kind = "FetchPages" -> "get space pages"
      [] kind = "FetchPage"  -> "get page"
      [] kind = "SearchCQL"  -> "search cql"

\* pages.go:38-41 and 124-127, then client.go:113-115 and 179-181
EffectiveLimit(limit) ==
    LET l == IF limit <= 0 THEN ActivityDefaultLimit ELSE limit
    IN  IF l <= 0 THEN ClientDefaultLimit ELSE l

\* the page filter with the boundary on the wrong side: !After(since)
SkippedNotAfter(page, since) ==
    since # <<>> /\ page.CreatedAt <= since[1]

\* pages.go:50: input.Since != nil && page.Version.CreatedAt.Before(*input.Since)
Skipped(page, since) ==
    since # <<>> /\ page.CreatedAt < since[1]

\* pages.go:48-55: the loop over the pages
RECURSIVE FetchPagesDocs(_, _)
FetchPagesDocs(pgs, since) ==
    IF pgs = <<>> THEN <<>>
    ELSE IF Skipped(Head(pgs), since)
         THEN FetchPagesDocs(Tail(pgs), since)
         ELSE <<pageToDocument(Head(pgs))>> \o FetchPagesDocs(Tail(pgs), since)

\* pages.go:134-138: the loop over result.Results
RECURSIVE SearchCQLDocs(_)
SearchCQLDocs(pgs) ==
    IF pgs = <<>> THEN <<>>
    ELSE <<pageToDocument(Head(pgs))>> \o SearchCQLDocs(Tail(pgs))

\* the docs of every invocation so far, p's appended: what a docs slice
\* declared at package level would hold
RECURSIVE BatchesUpTo(_)
BatchesUpTo(q) == IF q = 0 THEN <<>> ELSE BatchesUpTo(q - 1) \o batch[q]

DocsShared(p, pgs) ==
    BatchesUpTo(NumProcs) \o
        (IF call[p].kind = "FetchPages"
         THEN FetchPagesDocs(pgs, call[p].Since)
         ELSE SearchCQLDocs(pgs))

\* pages.go:48 and 134: docs is a fresh slice, local to the invocation
Docs(p, pgs) ==
    IF call[p].kind = "FetchPages"
    THEN FetchPagesDocs(pgs, call[p].Since)
    ELSE SearchCQLDocs(pgs)

\* a request built without the caller's ctx (http.NewRequest)
RequestCtxBackground(p) == FALSE

\* client.go:120, 151, 186: the request carries the caller's ctx, so Do and
\* the reads of the response body fail once ctx is done
RequestCtx(p) == ctxDone[p]

\* pages.go:57, 140: StoreDocuments is given the caller's ctx
StoreCtx(p) == ctxDone[p]

\* the output with the number of fetched pages as its count
SuccessOutputPagesCount(p, ref) ==
    [returned |-> TRUE, ok |-> TRUE, err |-> <<>>,
     Ref |-> ref, Count |-> Len(pages[p]), Document |-> NoDoc, Found |-> FALSE]

\* pages.go:62-65, 145-148
SuccessOutput(p, ref) ==
    [returned |-> TRUE, ok |-> TRUE, err |-> <<>>,
     Ref |-> ref, Count |-> Len(batch[p]), Document |-> NoDoc, Found |-> FALSE]

\* client.go:120-127 (151-158, 186-193): build the request, hand it to Do.
\* http.NewRequestWithContext fails on a base URL that does not parse; then
\* nothing is sent and the activity returns the wrapped error.
ClientCall(p, in) ==
    /\ pc[p] = "idle"
    /\ call' = [call EXCEPT ![p] = in]
    /\ nFetch' = [nFetch EXCEPT ![p] = @ + 1]
    /\ IF in.BaseURLOK
       THEN /\ req' = [req EXCEPT ![p] =
                         [endpoint |-> in.kind,
                          limit |-> IF in.kind = "FetchPage" THEN 0
                                    ELSE EffectiveLimit(in.Limit)]]
            /\ nHTTP' = [nHTTP EXCEPT ![p] = @ + 1]
            /\ pc' = [pc EXCEPT ![p] = "fetching"]
            /\ UNCHANGED <<fetched, result>>
       ELSE /\ fetched' = [fetched EXCEPT ![p] = "create request"]
            /\ result' = [result EXCEPT ![p] =
                            Failure(Wrap(in.kind), "create request")]
            /\ pc' = [pc EXCEPT ![p] = "done"]
            /\ UNCHANGED <<req, nHTTP>>
    /\ UNCHANGED <<htmlTagRegex, stripVars, docVars, ctxDone, cancelAt,
                   pages, batch, stored, nStore, store>>

\* pages.go:31-43
FetchPagesActivity(p, in) == in.kind = "FetchPages" /\ ClientCall(p, in)

\* pages.go:83-90
FetchPageActivity(p, in) == in.kind = "FetchPage" /\ ClientCall(p, in)

\* pages.go:117-129
SearchCQLActivity(p, in) == in.kind = "SearchCQL" /\ ClientCall(p, in)

\* the caller's cancellation or deadline fires while a call is outstanding
Cancel(p) ==
    /\ pc[p] \in {"fetching", "storing"}
    /\ ~ctxDone[p]
    /\ ctxDone' = [ctxDone EXCEPT ![p] = TRUE]
    /\ cancelAt' = [cancelAt EXCEPT ![p] = pc[p]]
    /\ UNCHANGED <<htmlTagRegex, stripVars, docVars, call, pc, req, fetched,
                   pages, batch, stored, result, nFetch, nHTTP, nStore, store>>

\* a failed fetch that is tried once more
FetchFailedRetry(p, cause) ==
    /\ nFetch' = [nFetch EXCEPT ![p] = @ + 1]
    /\ nHTTP' = [nHTTP EXCEPT ![p] = @ + 1]
    /\ fetched' = [fetched EXCEPT ![p] = cause]
    /\ IF nFetch[p] < 2
       THEN UNCHANGED <<pc, result>>
       ELSE /\ result' = [result EXCEPT ![p] =
                            Failure(Wrap(call[p].kind), cause)]
            /\ pc' = [pc EXCEPT ![p] = "done"]
    /\ UNCHANGED <<htmlTagRegex, stripVars, docVars, call, ctxDone, cancelAt,
                   req, pages, batch, stored, nStore, store>>

\* a failed fetch whose error is dropped: the activity goes on with no pages
FetchFailedSwallowed(p, cause) ==
    /\ fetched' = [fetched EXCEPT ![p] = cause]
    /\ batch' = [batch EXCEPT ![p] = <<>>]
    /\ nStore' = [nStore EXCEPT ![p] = @ + 1]
    /\ pc' = [pc EXCEPT ![p] = "storing"]
    /\ UNCHANGED <<htmlTagRegex, stripVars, docVars, call, ctxDone, cancelAt,
                   req, pages, stored, result, nFetch, nHTTP, store>>

\* client.go:122, 129, 135, 140 and pages.go:44-46, 91-93, 130-132: the
\* client returns an error and the activity returns it wrapped, at once
FetchFailed(p, cause) ==
    /\ fetched' = [fetched EXCEPT ![p] = cause]
    /\ result' = [result EXCEPT ![p] = Failure(Wrap(call[p].kind), cause)]
    /\ pc' = [pc EXCEPT ![p] = "done"]
    /\ UNCHANGED <<htmlTagRegex, stripVars, docVars, call, ctxDone, cancelAt,
                   req, pages, batch, stored, nFetch, nHTTP, nStore, store>>

\* client.go:127-130: Do returns an error (no connection, the client's
\* timeout, ctx done)
DoFails(p) ==
    /\ pc[p] = "fetching"
    /\ FetchFailed(p, "execute request")

\* client.go:133-136: a response whose status is not 200
DoBadStatus(p, status) ==
    /\ pc[p] = "fetching"
    /\ status # StatusOK
    /\ FetchFailed(p, "confluence API error")

\* client.go:139-141: a 200 whose body does not decode (or whose read fails)
DecodeFails(p) ==
    /\ pc[p] = "fetching"
    /\ FetchFailed(p, "decode response")

\* the decoded pages; the remote gives each page of a response its own id
MkPages(shapes) ==
    [i \in 1..Len(shapes) |->
        [ID |-> i, CreatedAt |-> shapes[i].CreatedAt,
         Storage |-> shapes[i].Storage, View |-> shapes[i].View]]

\* client.go:211 (143) and pages.go:48-57 (134-140): the pages are decoded,
\* the docs are built and handed to StoreDocuments
ClientReturnsPages(p, shapes) ==
    /\ pc[p] = "fetching"
    /\ ~RequestCtx(p)
    /\ fetched' = [fetched EXCEPT ![p] = "ok"]
    /\ pages' = [pages EXCEPT ![p] = MkPages(shapes)]
    /\ batch' = [batch EXCEPT ![p] = Docs(p, MkPages(shapes))]
    /\ nStore' = [nStore EXCEPT ![p] = @ + 1]
    /\ pc' = [pc EXCEPT ![p] = "storing"]
    /\ UNCHANGED <<htmlTagRegex, stripVars, docVars, call, ctxDone, cancelAt,
                   req, stored, result, nFetch, nHTTP, store>>

\* client.go:193-211 and pages.go:43-57
GetSpacePagesOK(p, shapes) ==
    call[p].kind = "FetchPages" /\ ClientReturnsPages(p, shapes)

\* client.go:127-143 and pages.go:129-140
SearchCQLOK(p, shapes) ==
    call[p].kind = "SearchCQL" /\ ClientReturnsPages(p, shapes)

\* client.go:158-174 and pages.go:90-98: the document is returned, no store
GetPageOK(p, shape) ==
    /\ call[p].kind = "FetchPage"
    /\ pc[p] = "fetching"
    /\ ~RequestCtx(p)
    /\ fetched' = [fetched EXCEPT ![p] = "ok"]
    /\ pages' = [pages EXCEPT ![p] = MkPages(<<shape>>)]
    /\ result' = [result EXCEPT ![p] =
                    [returned |-> TRUE, ok |-> TRUE, err |-> <<>>,
                     Ref |-> 0, Count |-> 0,
                     Document |-> pageToDocument(MkPages(<<shape>>)[1]),
                     Found |-> TRUE]]
    /\ pc' = [pc EXCEPT ![p] = "done"]
    /\ UNCHANGED <<htmlTagRegex, stripVars, docVars, call, ctxDone, cancelAt,
                   req, batch, stored, nFetch, nHTTP, nStore, store>>

\* pages.go:57-65, 140-148: the store holds the batch and returns its
\* reference, here the batch's place in the store
StoreDocumentsOK(p) ==
    /\ pc[p] = "storing"
    /\ ~StoreCtx(p)
    /\ store' = Append(store, batch[p])
    /\ stored' = [stored EXCEPT ![p] = "ok"]
    /\ result' = [result EXCEPT ![p] = SuccessOutput(p, Len(store) + 1)]
    /\ pc' = [pc EXCEPT ![p] = "done"]
    /\ UNCHANGED <<htmlTagRegex, stripVars, docVars, call, ctxDone, cancelAt,
                   req, fetched, pages, batch, nFetch, nHTTP, nStore>>

\* pages.go:58-60, 141-143: the store fails (on its own, or because ctx is
\* done) and holds nothing of the batch
StoreDocumentsFails(p) ==
    /\ pc[p] = "storing"
    /\ stored' = [stored EXCEPT ![p] = "error"]
    /\ result' = [result EXCEPT ![p] = Failure("store documents", "store error")]
    /\ pc' = [pc EXCEPT ![p] = "done"]
    /\ UNCHANGED <<htmlTagRegex, stripVars, docVars, call, ctxDone, cancelAt,
                   req, fetched, pages, batch, nFetch, nHTTP, nStore, store>>

IdleOps ==
    /\ call = [p \in Procs |-> NoCall]
    /\ pc = [p \in Procs |-> "idle"]
    /\ ctxDone = [p \in Procs |-> FALSE]
    /\ cancelAt = [p \in Procs |-> "none"]
    /\ req = [p \in Procs |-> NoReq]
    /\ fetched = [p \in Procs |-> "none"]
    /\ pages = [p \in Procs |-> <<>>]
    /\ batch = [p \in Procs |-> <<>>]
    /\ stored = [p \in Procs |-> "none"]
    /\ result = [p \in Procs |-> NoResult]
    /\ nFetch = [p \in Procs |-> 0]
    /\ nHTTP = [p \in Procs |-> 0]
    /\ nStore = [p \in Procs |-> 0]
    /\ store = <<>>

\* ------------------------------------------------------------------------
\* stripHTML applied to bounded inputs, and again to its own output
\* ------------------------------------------------------------------------
\* The pieces inputs are built from: brackets, a whole tag, a letter, a
\* whitespace character that is not a space, the five entity codes, a bare
\* ampersand and the codes without their ampersand (so that an ampersand
\* code can be followed by the rest of another code).
Pieces ==
    { <<"<">>, <<">">>, <<"<", "b", ">">>, <<"a">>, <<"\t">>, <<"&">>,
      Nbsp, Amp, Lt, Gt, Quot,
      Tail(Nbsp), Tail(Amp), Tail(Lt), Tail(Gt), Tail(Quot) }

RECURSIVE Concat(_)
Concat(ps) == IF ps = <<>> THEN <<>> ELSE Head(ps) \o Concat(Tail(ps))

\* every concatenation of at most n pieces of P
Concats(P, n) == { Concat(ps) : ps \in UNION { [1..k -> P] : k \in 0..n } }

StripInputs == Concats(Pieces, MaxPieces)

InitStrip ==
    /\ htmlTagRegex = CompiledTagRegex
    /\ html \in StripInputs
    /\ text = <<>>
    /\ prev = <<>>
    /\ strips = 0
    /\ IdleDoc
    /\ IdleOps

\* text := stripHTML(html)
StripCall ==
    /\ strips = 0
    /\ text' = stripHTML(html)
    /\ prev' = prev
    /\ strips' = 1
    /\ UNCHANGED <<htmlTagRegex, html, docVars, opVars>>

\* text := stripHTML(text): the function applied to its own output
StripAgain ==
    /\ strips = 1
    /\ prev' = text
    /\ text' = stripHTML(text)
    /\ strips' = 2
    /\ UNCHANGED <<htmlTagRegex, html, docVars, opVars>>

NextStrip == StripCall \/ StripAgain

SpecStrip == InitStrip /\ [][NextStrip]_vars

\* ------------------------------------------------------------------------
\* pageToDocument applied to bounded pairs of bodies
\* ------------------------------------------------------------------------
BodyPieces ==
    { <<"<", "b", ">">>, <<"<", "/", "b", ">">>, <<"a">>, <<"\t">>, Nbsp }

BodyInputs == Concats(BodyPieces, MaxBodyPieces)

InitDoc ==
    /\ htmlTagRegex = CompiledTagRegex
    /\ storage \in BodyInputs
    /\ view \in BodyInputs
    /\ doc = NoDoc
    /\ IdleStrip
    /\ IdleOps

\* doc := pageToDocument(page)
PageToDocumentCall ==
    /\ doc = NoDoc
    /\ doc' = pageToDocument([ID |-> 1, CreatedAt |-> 0,
                              Storage |-> storage, View |-> view])
    /\ UNCHANGED <<htmlTagRegex, stripVars, storage, view, opVars>>

NextDoc == PageToDocumentCall

SpecDoc == InitDoc /\ [][NextDoc]_vars

\* ------------------------------------------------------------------------
\* One invocation with every input and response; several at once with few
\* ------------------------------------------------------------------------
\* the bodies of the page created at t: a storage body with text at the even
\* instants, one that strips to nothing beside a view body with text at the
\* odd ones
OpBody(t) ==
    IF t % 2 = 0
    THEN [Storage |-> <<"<", "b", ">", "a">>, View |-> <<>>]
    ELSE [Storage |-> <<"<", "b", ">">>,
          View |-> <<"a", "&", "a", "m", "p", ";">>]

PageShapes ==
    { [CreatedAt |-> t, Storage |-> OpBody(t).Storage, View |-> OpBody(t).View] :
        t \in Times }

AllResponses == UNION { [1..k -> PageShapes] : k \in 0..MaxPages }

AllInputs ==
    { [kind |-> "FetchPages", Since |-> s, Limit |-> 0, BaseURLOK |-> u] :
        s \in Sinces, u \in BOOLEAN }
    \cup { [kind |-> "FetchPage", Since |-> <<>>, Limit |-> 0, BaseURLOK |-> u] :
        u \in BOOLEAN }
    \cup { [kind |-> "SearchCQL", Since |-> <<>>, Limit |-> l, BaseURLOK |-> u] :
        l \in {0, MaxPages}, u \in BOOLEAN }

BadStatuses == {404, 500}

Init ==
    /\ htmlTagRegex = CompiledTagRegex
    /\ IdleStrip
    /\ IdleDoc
    /\ IdleOps

Next ==
    \/ \E in \in AllInputs : FetchPagesActivity(1, in)
    \/ \E in \in AllInputs : FetchPageActivity(1, in)
    \/ \E in \in AllInputs : SearchCQLActivity(1, in)
    \/ Cancel(1)
    \/ DoFails(1)
    \/ \E status \in BadStatuses : DoBadStatus(1, status)
    \/ DecodeFails(1)
    \/ \E shapes \in AllResponses : GetSpacePagesOK(1, shapes)
    \/ \E shapes \in AllResponses : SearchCQLOK(1, shapes)
    \/ \E shape \in PageShapes : GetPageOK(1, shape)
    \/ StoreDocumentsOK(1)
    \/ StoreDocumentsFails(1)

Spec == Init /\ [][Next]_vars

\* the inputs and responses of the concurrent invocations
ConcInputs ==
    { [kind |-> "FetchPages", Since |-> <<1>>, Limit |-> 0, BaseURLOK |-> TRUE],
      [kind |-> "FetchPage", Since |-> <<>>, Limit |-> 0, BaseURLOK |-> TRUE],
      [kind |-> "SearchCQL", Since |-> <<>>, Limit |-> 0, BaseURLOK |-> TRUE] }

ConcShapes ==
    { [CreatedAt |-> t, Storage |-> <<"<", "b", ">", "a">>, View |-> <<>>] :
        t \in {0, 1} }

ConcResponses == { <<>> } \cup { <<x, y>> : x \in ConcShapes, y \in ConcShapes }

NextConc ==
    \E p \in Procs :
        \/ \E in \in ConcInputs : FetchPagesActivity(p, in)
        \/ \E in \in ConcInputs : FetchPageActivity(p, in)
        \/ \E in \in ConcInputs : SearchCQLActivity(p, in)
        \/ Cancel(p)
        \/ DoFails(p)
        \/ \E status \in BadStatuses : DoBadStatus(p, status)
        \/ DecodeFails(p)
        \/ \E shapes \in ConcResponses : GetSpacePagesOK(p, shapes)
        \/ \E shapes \in ConcResponses : SearchCQLOK(p, shapes)
        \/ \E shape \in ConcShapes : GetPageOK(p, shape)
        \/ StoreDocumentsOK(p)
        \/ StoreDocumentsFails(p)

SpecConc == Init /\ [][NextConc]_vars

\* ------------------------------------------------------------------------
\* Properties of stripHTML
\* ------------------------------------------------------------------------
EntityCodes == {Nbsp, Amp, Lt, Gt, Quot}

\* sub occurs in s
Contains(s, sub) ==
    \E i \in 0..(Len(s) - Len(sub)) : SubSeq(s, i + 1, i + Len(sub)) = sub

\* s holds a literal <...> tag: an opening bracket with a closing one after it
HasTag(s) == \E i, j \in 1..Len(s) : i < j /\ s[i] = "<" /\ s[j] = ">"

NoEntityCode(s) == \A code \in EntityCodes : ~Contains(s, code)

\* the argument of the stripHTML call that produced text
LastInput == IF strips = 2 THEN prev ELSE html

\* The five substitutions made in ONE left-to-right pass: the characters a
\* substitution produces are never looked at again.
RECURSIVE DecodeOnce(_)
DecodeOnce(s) ==
    IF s = <<>> THEN <<>>
    ELSE IF HasPrefix(s, Nbsp) THEN <<" ">> \o DecodeOnce(Drop(s, Len(Nbsp)))
    ELSE IF HasPrefix(s, Amp) THEN <<"&">> \o DecodeOnce(Drop(s, Len(Amp)))
    ELSE IF HasPrefix(s, Lt) THEN <<"<">> \o DecodeOnce(Drop(s, Len(Lt)))
    ELSE IF HasPrefix(s, Gt) THEN <<">">> \o DecodeOnce(Drop(s, Len(Gt)))
    ELSE IF HasPrefix(s, Quot) THEN <<"\"">> \o DecodeOnce(Drop(s, Len(Quot)))
    ELSE <<Head(s)>> \o DecodeOnce(Tail(s))

\* C2 as stated: the output of stripHTML never holds a literal <...> tag nor
\* any of the codes &nbsp; &amp; &lt; &gt; &quot;.
C2_NoTagNoEntityCode ==
    strips >= 1 => ~HasTag(text) /\ NoEntityCode(text)

\* C2 amended: the output of stripHTML never holds &lt; &gt; or &quot;; it
\* holds &nbsp; or &amp; only when the input held the code &amp;, and a
\* literal <...> tag only when the input held the characters lt; or gt; of a
\* bracket code.
C2_OutputCodesAndTags ==
    strips >= 1 =>
        /\ ~Contains(text, Lt) /\ ~Contains(text, Gt) /\ ~Contains(text, Quot)
        /\ (Contains(text, Nbsp) \/ Contains(text, Amp))
               => Contains(LastInput, Amp)
        /\ HasTag(text)
               => Contains(LastInput, Tail(Lt)) \/ Contains(LastInput, Tail(Gt))

\* C2 witness: an input with a tag and a quote code, both gone from the output
C2_Witness ==
    /\ strips = 1
    /\ HasTag(html) /\ Contains(html, Quot)
    /\ text # <<>>
    /\ ~HasTag(text) /\ NoEntityCode(text)

\* C3 as stated: stripHTML(stripHTML(x)) = stripHTML(x) for every x.
C3_Idempotent ==
    strips = 2 => text = prev

\* C3 amended: stripHTML(stripHTML(x)) = stripHTML(x) for every x that holds
\* none of the five entity codes.
C3_IdempotentWithoutCodes ==
    (strips = 2 /\ NoEntityCode(html)) => text = prev

\* C3 witness: a code-free input with a tag, changed by the first call and
\* left alone by the second
C3_Witness ==
    /\ strips = 2
    /\ NoEntityCode(html) /\ HasTag(html)
    /\ prev # html /\ prev # <<>>
    /\ text = prev

\* C4 as stated: the entity substitutions are applied once to the
\* tag-stripped text, so an & produced from &amp; is never combined with the
\* characters after it into another code (&amp;lt; yields &lt;, not <).
C4_SubstitutedOnce ==
    strips >= 1 => text = CollapseSpace(DecodeOnce(StripTags(LastInput)))

\* ------------------------------------------------------------------------
\* Properties of pageToDocument
\* ------------------------------------------------------------------------
\* C5: the content is stripHTML(storage body) when that is non-empty and
\* stripHTML(view body) exactly when stripHTML(storage body) is empty; when
\* both strip to nothing the content is empty and a document is still made.
C5_ContentFallback ==
    doc # NoDoc =>
        /\ doc.ID = 1
        /\ stripHTML(storage) # <<>> => doc.Content = stripHTML(storage)
        /\ stripHTML(storage) = <<>> => doc.Content = stripHTML(view)
        /\ (stripHTML(storage) = <<>> /\ stripHTML(view) = <<>>)
              => doc.Content = <<>>

\* C5 witness: a storage body that is not empty but strips to nothing, and
\* the content taken from the view body
C5_Witness ==
    /\ doc # NoDoc
    /\ storage # <<>> /\ stripHTML(storage) = <<>>
    /\ doc.Content # <<>>

\* ------------------------------------------------------------------------
\* Properties of the activities
\* ------------------------------------------------------------------------
BatchKinds == {"FetchPages", "SearchCQL"}

Succeeded(p) == result[p].returned /\ result[p].ok
Failed(p) == result[p].returned /\ ~result[p].ok

\* the ids of the documents of a batch
BatchIDs(docs) == { docs[j].ID : j \in 1..Len(docs) }

\* C1: of the pages listBySpace returned, a page is absent from the batch
\* FetchPages gives the store iff since is provided and the page's creation
\* instant is strictly before it; a page created at since is present, and
\* with no since no page is absent.
C1_FilterBySince ==
    \A p \in Procs :
        (call[p].kind = "FetchPages" /\ nStore[p] >= 1) =>
            /\ \A i \in 1..Len(pages[p]) :
                  (pages[p][i].ID \notin BatchIDs(batch[p]))
                    <=> (/\ call[p].Since # <<>>
                         /\ pages[p][i].CreatedAt < call[p].Since[1])
            /\ BatchIDs(batch[p]) \subseteq { pages[p][i].ID : i \in 1..Len(pages[p]) }

\* C1 witness: pages created at 0, 1, 2 and since = 1: the pages at 1 and 2
\* are stored, count 2
C1_Witness ==
    /\ call[1].kind = "FetchPages"
    /\ call[1].Since = <<1>>
    /\ Len(pages[1]) = 3
    /\ \A i \in 1..3 : pages[1][i].CreatedAt = i - 1
    /\ BatchIDs(batch[1]) = {2, 3}
    /\ Succeeded(1)
    /\ result[1].Count = 2

\* the pages of p that the time filter of FetchPages leaves
Remaining(p) ==
    { i \in 1..Len(pages[p]) :
        ~(/\ call[p].kind = "FetchPages"
          /\ call[p].Since # <<>>
          /\ pages[p][i].CreatedAt < call[p].Since[1]) }

\* C6: when FetchPages or SearchByQuery succeeds, the count returned is the
\* number of documents given to the one store call, which is the number of
\* pages left by the filter (all the search items for SearchByQuery), zero
\* included: then the empty batch is stored and the count is 0.
C6_CountIsBatchIsRemaining ==
    \A p \in Procs :
        (Succeeded(p) /\ call[p].kind \in BatchKinds) =>
            /\ nStore[p] = 1
            /\ result[p].Count = Len(batch[p])
            /\ Len(batch[p]) = Cardinality(Remaining(p))
            /\ result[p].Ref \in 1..Len(store)
            /\ store[result[p].Ref] = batch[p]

\* C6 witness: every fetched page is before since; the empty batch is stored
C6_Witness ==
    /\ call[1].kind = "FetchPages"
    /\ Succeeded(1)
    /\ Len(pages[1]) >= 2
    /\ batch[1] = <<>>
    /\ result[1].Count = 0
    /\ store = << <<>> >>

FetchFailures ==
    {"create request", "execute request", "confluence API error",
     "decode response"}

\* the batches the store holds are those of the store calls that succeeded
StoreHoldsOnlySuccesses ==
    Len(store) = Cardinality({ q \in Procs : stored[q] = "ok" })

\* C7: a failed fetch makes the operation return an error, with no document
\* and no store call; a failed store call makes it return an error with no
\* reference and no count, and the store holds nothing of it; no operation
\* returns success after one of its steps failed.
C7_FailureAborts ==
    \A p \in Procs :
        /\ fetched[p] \in FetchFailures =>
              /\ pc[p] = "done"
              /\ Failed(p)
              /\ result[p].err = <<Wrap(call[p].kind), fetched[p]>>
              /\ result[p].Document = NoDoc /\ ~result[p].Found
              /\ nStore[p] = 0 /\ stored[p] = "none"
        /\ stored[p] = "error" =>
              /\ pc[p] = "done"
              /\ Failed(p)
              /\ result[p].Ref = 0 /\ result[p].Count = 0
        /\ StoreHoldsOnlySuccesses
        /\ Succeeded(p) =>
              /\ fetched[p] = "ok"
              /\ call[p].kind \in BatchKinds => stored[p] = "ok"

\* C7 witness: a status that is not 200; the operation has failed, nothing
\* was given to the store
C7_Witness ==
    /\ fetched[1] = "confluence API error"
    /\ Failed(1)
    /\ nStore[1] = 0
    /\ store = <<>>

\* C8: an operation calls its fetch once and never again, and the client
\* sends at most one request for it; a successful FetchPages or
\* SearchByQuery makes exactly one store call, after the fetch has resolved,
\* also for an empty batch; FetchPage makes none.
C8_OneFetchOneStore ==
    \A p \in Procs :
        /\ nFetch[p] = (IF pc[p] = "idle" THEN 0 ELSE 1)
        /\ nHTTP[p] = (IF pc[p] # "idle" /\ call[p].BaseURLOK THEN 1 ELSE 0)
        /\ fetched[p] # "none" => pc[p] # "fetching"
        /\ nStore[p] <= 1
        /\ nStore[p] = 1 => fetched[p] = "ok"
        /\ (Succeeded(p) /\ call[p].kind \in BatchKinds) => nStore[p] = 1
        /\ call[p].kind = "FetchPage" => nStore[p] = 0

\* C8 witness: a search that returned no item; one fetch, one store call
C8_Witness ==
    /\ call[1].kind = "SearchCQL"
    /\ Succeeded(1)
    /\ pages[1] = <<>>
    /\ nFetch[1] = 1 /\ nHTTP[1] = 1 /\ nStore[1] = 1

OwnDocs(p) ==
    IF call[p].kind = "FetchPages"
    THEN FetchPagesDocs(pages[p], call[p].Since)
    ELSE SearchCQLDocs(pages[p])

\* what an invocation returns, from its own input and the answers to its own
\* fetch and store calls (the reference the store gave it left aside)
OwnResult(p) ==
    IF fetched[p] \in FetchFailures
    THEN Failure(Wrap(call[p].kind), fetched[p])
    ELSE IF fetched[p] = "ok" /\ call[p].kind = "FetchPage"
    THEN [returned |-> TRUE, ok |-> TRUE, err |-> <<>>, Ref |-> 0, Count |-> 0,
          Document |-> pageToDocument(pages[p][1]), Found |-> TRUE]
    ELSE IF stored[p] = "error"
    THEN Failure("store documents", "store error")
    ELSE IF stored[p] = "ok"
    THEN [returned |-> TRUE, ok |-> TRUE, err |-> <<>>, Ref |-> 0,
          Count |-> Len(OwnDocs(p)), Document |-> NoDoc, Found |-> FALSE]
    ELSE NoResult

WithoutRef(r) == IF r.returned THEN [r EXCEPT !.Ref = 0] ELSE r

\* C10: under every interleaving of concurrent invocations, the batch an
\* invocation gives the store and the result it returns are those its own
\* input and the answers to its own calls determine (what it would do
\* alone); two invocations with the same input and answers agree; the
\* package-level pattern is never written.
C10_NoSharedState ==
    /\ htmlTagRegex = CompiledTagRegex
    /\ \A p \in Procs :
          /\ nStore[p] >= 1 => batch[p] = OwnDocs(p)
          /\ nStore[p] = 0 => batch[p] = <<>>
          /\ WithoutRef(result[p]) = OwnResult(p)
          /\ (Succeeded(p) /\ call[p].kind \in BatchKinds)
                => store[result[p].Ref] = batch[p]
    /\ \A p, q \in Procs :
          (/\ call[p] = call[q] /\ fetched[p] = fetched[q]
           /\ pages[p] = pages[q] /\ stored[p] = stored[q])
             => /\ batch[p] = batch[q]
                /\ WithoutRef(result[p]) = WithoutRef(result[q])

\* C10 witness: two invocations in flight together, both successful, the
\* second one stored first, each with its own non-empty batch
C10_Witness ==
    /\ Succeeded(1) /\ Succeeded(2)
    /\ call[1].kind = "FetchPages" /\ call[2].kind = "SearchCQL"
    /\ Len(batch[1]) = 1 /\ Len(batch[2]) = 2
    /\ result[1].Ref = 2 /\ result[2].Ref = 1

=============================================================================
